---- MODULE Spec2Model ----
(***************************************************************************)
(* Delivery Path Optimizer (src/delpathopt.cpp).                           *)
(*                                                                         *)
(* The class DeliveryPathOptimizer keeps an undirected weighted multigraph *)
(* of named locations: a name -> handle map, a handle -> name list, one    *)
(* adjacency list of (neighbour handle, cost) pairs per handle, and a      *)
(* count.  Handles are 0-based, as stored by the program; row h of the     *)
(* adjacency list is adjList[h + 1] here because TLA+ sequences start at 1.*)
(* Every public method is one action; the driver loop of main() calls them *)
(* one at a time.                                                          *)
(***************************************************************************)
EXTENDS Integers, Sequences, FiniteSets, TLC

VARIABLES
    locationToIndex,  \* unordered_map<string,int>: function from live names to handles
    indexToLocation,  \* vector<string>: names in handle order
    adjList,          \* vector<vector<pair<int,int>>>: rows of <<neighbour, cost>>
    locationCount,    \* int
    lastCall,         \* the call main() made last and what it did (see Call)
    dist,             \* optimizeDeliveryPlan: the dist vector when the loop ended
    report,           \* optimizeDeliveryPlan: the lines printed, one per handle
    delivered,        \* simulateDelivery: the names printed, in order
    shown,            \* showLocations: the names printed, in order
    run               \* the query loop in progress, when a query is followed
                      \* iteration by iteration (see Idle)

graph == <<locationToIndex, indexToLocation, adjList, locationCount>>
vars == <<locationToIndex, indexToLocation, adjList, locationCount,
          lastCall, dist, report, delivered, shown, run>>

----
\* Bounds of the model.

\* the names the caller may type
Names == {"A", "B", "C"}
\* the largest number of addRoute calls whose entries are alive at once
MaxRoutes == 2

\* numeric_limits<int>::max() and ::min() of the 32-bit int
INT_MAX == 2147483647
INT_MIN == (-2147483647) - 1

\* the costs the caller may type (stoi accepts every int)
Costs == {1, INT_MAX}

\* names, costs and number of loop iterations where a query is followed
\* iteration by iteration
StepNames == {"A", "B"}
StepCosts == {-1, 1, 500000000, INT_MAX}
MaxSteps == 8

----
\* Helpers on sequences.

RECURSIVE SelectSeqIdx(_, _, _)
\* the entries of s at positions i.. whose target differs from h
\* (erase(remove_if(..., p.first == h)) keeps the others in order)
SelectSeqIdx(s, h, i) ==
    IF i > Len(s) THEN <<>>
    ELSE IF s[i][1] = h THEN SelectSeqIdx(s, h, i + 1)
    ELSE <<s[i]>> \o SelectSeqIdx(s, h, i + 1)

EraseTarget(s, h) == SelectSeqIdx(s, h, 1)

\* vector::erase(begin() + idx) on a 0-based position
EraseAt(s, idx) == [i \in 1..(Len(s) - 1) |-> IF i <= idx THEN s[i] ELSE s[i + 1]]

\* total number of adjacency entries
RECURSIVE SumLen(_, _)
SumLen(rows, i) == IF i > Len(rows) THEN 0 ELSE Len(rows[i]) + SumLen(rows, i + 1)

\* The record of a call: the method, its arguments, the message it printed
\* ("ok" for the success message), the handle idx a removeLocation found
\* (-1 otherwise), the number of adjacency entries the call erased, and, for
\* a removeRoute, whether the previous call was a successful removeRoute
\* with the same arguments.
Call(op, from, to, cost, status, idx, erased) ==
    [op |-> op, from |-> from, to |-> to, cost |-> cost, status |-> status,
     idx |-> idx, erased |-> erased,
     again |-> /\ op = "removeRoute"
               /\ lastCall.op = op
               /\ lastCall.status = "ok"
               /\ lastCall.from = from
               /\ lastCall.to = to]

NoOutput ==
    /\ dist' = <<>>
    /\ report' = <<>>
    /\ delivered' = <<>>
    /\ shown' = <<>>

\* No query loop in progress.  Otherwise run is [kind, start, st, steps,
\* scans]: which loop, the name it started from, the loop state, the number
\* of iterations of the while loop so far and, per handle, how many of them
\* went through that handle's adjacency list.
Idle == [kind |-> "idle", start |-> "", st |-> <<>>, steps |-> 0, scans |-> <<>>]

----
\* State after the constructor.

Init ==
    /\ locationToIndex = <<>>
    /\ indexToLocation = <<>>
    /\ adjList = <<>>
    /\ locationCount = 0
    /\ lastCall = [op |-> "none", from |-> "", to |-> "", cost |-> 0, status |-> "ok",
                   idx |-> -1, erased |-> 0, again |-> FALSE]
    /\ dist = <<>>
    /\ report = <<>>
    /\ delivered = <<>>
    /\ shown = <<>>
    /\ run = Idle

----
\* Mutations.

\* addLocation incrementing the count before the duplicate check
addLocation_countFirst(name) ==
    IF name \in DOMAIN locationToIndex
    THEN /\ lastCall' = Call("addLocation", name, "", 0, "DuplicateLocation", -1, 0)
         /\ locationCount' = locationCount + 1
         /\ UNCHANGED <<locationToIndex, indexToLocation, adjList>>
         /\ NoOutput
    ELSE /\ locationToIndex' = [n \in DOMAIN locationToIndex \cup {name} |->
                                  IF n = name THEN locationCount ELSE locationToIndex[n]]
         /\ locationCount' = locationCount + 1
         /\ indexToLocation' = Append(indexToLocation, name)
         /\ adjList' = Append(adjList, <<>>)
         /\ lastCall' = Call("addLocation", name, "", 0, "ok", -1, 0)
         /\ NoOutput

\* addLocation with ++locationCount in place of locationCount++
addLocation_preIncrement(name) ==
    IF name \in DOMAIN locationToIndex
    THEN /\ lastCall' = Call("addLocation", name, "", 0, "DuplicateLocation", -1, 0)
         /\ UNCHANGED graph
         /\ NoOutput
    ELSE /\ locationToIndex' = [n \in DOMAIN locationToIndex \cup {name} |->
                                  IF n = name THEN locationCount + 1
                                  ELSE locationToIndex[n]]
         /\ locationCount' = locationCount + 1
         /\ indexToLocation' = Append(indexToLocation, name)
         /\ adjList' = Append(adjList, <<>>)
         /\ lastCall' = Call("addLocation", name, "", 0, "ok", -1, 0)
         /\ NoOutput

\* addLocation without adjList.emplace_back()
addLocation_noRow(name) ==
    IF name \in DOMAIN locationToIndex
    THEN /\ lastCall' = Call("addLocation", name, "", 0, "DuplicateLocation", -1, 0)
         /\ UNCHANGED graph
         /\ NoOutput
    ELSE /\ locationToIndex' = [n \in DOMAIN locationToIndex \cup {name} |->
                                  IF n = name THEN locationCount ELSE locationToIndex[n]]
         /\ locationCount' = locationCount + 1
         /\ indexToLocation' = Append(indexToLocation, name)
         /\ adjList' = adjList
         /\ lastCall' = Call("addLocation", name, "", 0, "ok", -1, 0)
         /\ NoOutput

addLocation(name) ==
    IF name \in DOMAIN locationToIndex
    THEN /\ lastCall' = Call("addLocation", name, "", 0, "DuplicateLocation", -1, 0)
         /\ UNCHANGED graph
         /\ NoOutput
    ELSE /\ locationToIndex' = [n \in DOMAIN locationToIndex \cup {name} |->
                                  IF n = name THEN locationCount ELSE locationToIndex[n]]
         /\ locationCount' = locationCount + 1
         /\ indexToLocation' = Append(indexToLocation, name)
         /\ adjList' = Append(adjList, <<>>)
         /\ lastCall' = Call("addLocation", name, "", 0, "ok", -1, 0)
         /\ NoOutput

\* CompactRow without the erase(remove_if(...)): only the decrement
CompactRow_keep(neighbors, idx) ==
    [i \in 1..Len(neighbors) |->
        IF neighbors[i][1] > idx THEN <<neighbors[i][1] - 1, neighbors[i][2]>>
        ELSE neighbors[i]]

\* CompactRow without the decrement of the targets above idx
CompactRow_noShift(neighbors, idx) == EraseTarget(neighbors, idx)

\* the loop of lines 88-97 on one row
CompactRow(neighbors, idx) ==
    LET kept == EraseTarget(neighbors, idx)
    IN  [i \in 1..Len(kept) |->
            IF kept[i][1] > idx THEN <<kept[i][1] - 1, kept[i][2]>> ELSE kept[i]]

\* RebuildIndex numbering the names from 1 instead of 0
RebuildIndex_fromOne(names) ==
    [n \in {names[i] : i \in 1..Len(names)} |->
        CHOOSE i \in 1..Len(names) :
            /\ names[i] = n
            /\ \A j \in (i + 1)..Len(names) : names[j] # n]

\* lines 100-103
RebuildIndex(names) ==
    [n \in {names[i] : i \in 1..Len(names)} |->
        (CHOOSE i \in 1..Len(names) :
            /\ names[i] = n
            /\ \A j \in (i + 1)..Len(names) : names[j] # n) - 1]

removeLocation(name) ==
    IF name \notin DOMAIN locationToIndex
    THEN /\ lastCall' = Call("removeLocation", name, "", 0, "LocationNotFound", -1, 0)
         /\ UNCHANGED graph
         /\ NoOutput
    ELSE LET idx == locationToIndex[name]
             rows == EraseAt(adjList, idx)
             names == EraseAt(indexToLocation, idx)
         IN  /\ adjList' = [r \in 1..Len(rows) |-> CompactRow(rows[r], idx)]
             /\ indexToLocation' = names
             /\ locationToIndex' = RebuildIndex(names)
             /\ locationCount' = locationCount - 1
             /\ lastCall' = Call("removeLocation", name, "", 0, "ok", idx,
                                  SumLen(adjList, 1) - SumLen(adjList', 1))
             /\ NoOutput

\* PushRoute without the second push_back
PushRoute_oneWay(rows, u, v, cost) ==
    [rows EXCEPT ![u + 1] = Append(@, <<v, cost>>)]

\* PushRoute skipping the second push_back of a self-route
PushRoute_selfOnce(rows, u, v, cost) ==
    LET first == [rows EXCEPT ![u + 1] = Append(@, <<v, cost>>)]
    IN  IF u = v THEN first ELSE [first EXCEPT ![v + 1] = Append(@, <<u, cost>>)]

\* the two push_back calls of lines 126-127, in order
PushRoute(rows, u, v, cost) ==
    LET first == [rows EXCEPT ![u + 1] = Append(@, <<v, cost>>)]
    IN  [first EXCEPT ![v + 1] = Append(@, <<u, cost>>)]

addRoute(from, to, cost) ==
    IF from \notin DOMAIN locationToIndex \/ to \notin DOMAIN locationToIndex
    THEN /\ lastCall' = Call("addRoute", from, to, cost, "LocationNotFound", -1, 0)
         /\ UNCHANGED graph
         /\ NoOutput
    ELSE LET u == locationToIndex[from]
             v == locationToIndex[to]
         IN  /\ SumLen(adjList, 1) < 2 * MaxRoutes
             /\ adjList' = PushRoute(adjList, u, v, cost)
             /\ UNCHANGED <<locationToIndex, indexToLocation, locationCount>>
             /\ lastCall' = Call("addRoute", from, to, cost, "ok", -1, 0)
             /\ NoOutput

\* s without its first entry that targets h
EraseFirst(s, h) ==
    IF \E i \in 1..Len(s) : s[i][1] = h
    THEN EraseAt(s, (CHOOSE i \in 1..Len(s) :
                        s[i][1] = h /\ \A j \in 1..(i - 1) : s[j][1] # h) - 1)
    ELSE s

\* DropRoute erasing one matching entry per list instead of all
DropRoute_first(rows, u, v) ==
    LET first == [rows EXCEPT ![u + 1] = EraseFirst(@, v)]
    IN  [first EXCEPT ![v + 1] = EraseFirst(@, u)]

\* the two erase(remove_if(...)) calls of lines 148-155, in order
DropRoute(rows, u, v) ==
    LET first == [rows EXCEPT ![u + 1] = EraseTarget(@, v)]
    IN  [first EXCEPT ![v + 1] = EraseTarget(@, u)]

\* removeRoute reporting an error when there is nothing to erase
removeRoute_strict(from, to) ==
    IF from \notin DOMAIN locationToIndex \/ to \notin DOMAIN locationToIndex
    THEN /\ lastCall' = Call("removeRoute", from, to, 0, "LocationNotFound", -1, 0)
         /\ UNCHANGED graph
         /\ NoOutput
    ELSE LET u == locationToIndex[from]
             v == locationToIndex[to]
         IN  /\ adjList' = DropRoute(adjList, u, v)
             /\ UNCHANGED <<locationToIndex, indexToLocation, locationCount>>
             /\ lastCall' = Call("removeRoute", from, to, 0,
                                  IF adjList' = adjList THEN "RouteNotFound" ELSE "ok",
                                  -1, SumLen(adjList, 1) - SumLen(adjList', 1))
             /\ NoOutput

removeRoute(from, to) ==
    IF from \notin DOMAIN locationToIndex \/ to \notin DOMAIN locationToIndex
    THEN /\ lastCall' = Call("removeRoute", from, to, 0, "LocationNotFound", -1, 0)
         /\ UNCHANGED graph
         /\ NoOutput
    ELSE LET u == locationToIndex[from]
             v == locationToIndex[to]
         IN  /\ adjList' = DropRoute(adjList, u, v)
             /\ UNCHANGED <<locationToIndex, indexToLocation, locationCount>>
             /\ lastCall' = Call("removeRoute", from, to, 0, "ok", -1,
                                  SumLen(adjList, 1) - SumLen(adjList', 1))
             /\ NoOutput

----
\* 32-bit int arithmetic.  Signed overflow is undefined behaviour: a build
\* either wraps (two's complement) or traps, and optimizeDeliveryPlan offers
\* both outcomes once an addition has overflowed ("aborted" ends the process).

AddOverflows(a, b) ==
    \/ b > 0 /\ a > INT_MAX - b
    \/ b < 0 /\ a < INT_MIN - b

\* a + b of a wrapping build
Add32(a, b) ==
    IF b > 0 /\ a > INT_MAX - b THEN INT_MIN + ((a - (INT_MAX - b)) - 1)
    ELSE IF b < 0 /\ a < INT_MIN - b THEN (INT_MAX + (a - (INT_MIN - b))) + 1
    ELSE a + b

\* dist[i] * 5 of line 225, as repeated addition
Times5Overflows(d) ==
    \/ AddOverflows(d, d)
    \/ AddOverflows(Add32(d, d), d)
    \/ AddOverflows(Add32(Add32(d, d), d), d)
    \/ AddOverflows(Add32(Add32(Add32(d, d), d), d), d)

Times5(d) == Add32(Add32(Add32(Add32(d, d), d), d), d)

----
\* optimizeDeliveryPlan (Dijkstra).  The loop state is [dist, pq, ub]: the
\* dist vector, the content of the priority queue (pairs <<distance, vertex>>)
\* and whether a signed addition has overflowed.

\* greater<pair<int,int>> makes the heap a min-heap on the lexicographic order
PairLess(p, q) == p[1] < q[1] \/ (p[1] = q[1] /\ p[2] < q[2])

\* position of the pair pq.top() returns
TopIdx(pq) == CHOOSE i \in 1..Len(pq) : \A j \in 1..Len(pq) : ~PairLess(pq[j], pq[i])

\* lines 205-214 from entry i of the row of u
RECURSIVE Relax(_, _, _, _)
Relax(row, u, st, i) ==
    IF i > Len(row) THEN st
    ELSE LET v == row[i][1]
             cost == row[i][2]
             sum == Add32(st.dist[u + 1], cost)
             ub == st.ub \/ AddOverflows(st.dist[u + 1], cost)
         IN  IF st.dist[v + 1] > sum
             THEN Relax(row, u,
                        [dist |-> [st.dist EXCEPT ![v + 1] = sum],
                         pq |-> Append(st.pq, <<sum, v>>),
                         ub |-> ub], i + 1)
             ELSE Relax(row, u, [st EXCEPT !.ub = ub], i + 1)

\* one iteration of the while loop of lines 196-215
DijkstraStep(rows, st) ==
    LET t == TopIdx(st.pq)
        d == st.pq[t][1]
        u == st.pq[t][2]
        popped == [st EXCEPT !.pq = EraseAt(st.pq, t - 1)]
    IN  IF d > st.dist[u + 1] THEN popped
        ELSE Relax(rows[u + 1], u, popped, 1)

RECURSIVE DijkstraLoop(_, _)
DijkstraLoop(rows, st) ==
    IF st.pq = <<>> THEN st ELSE DijkstraLoop(rows, DijkstraStep(rows, st))

\* lines 183-215
Dijkstra(rows, n, src) ==
    DijkstraLoop(rows, [dist |-> [i \in 1..n |-> IF i = src + 1 THEN 0 ELSE INT_MAX],
                        pq |-> << <<0, src>> >>,
                        ub |-> FALSE])

\* lines 219-226: one printed line per handle
ReportLine(name, d) ==
    IF d = INT_MAX
    THEN [name |-> name, unreachable |-> TRUE, eta |-> 0, cost |-> 0]
    ELSE [name |-> name, unreachable |-> FALSE, eta |-> d, cost |-> Times5(d)]

optimizeDeliveryPlan(start) ==
    IF start \notin DOMAIN locationToIndex
    THEN /\ lastCall' = Call("optimizeDeliveryPlan", start, "", 0, "LocationNotFound", -1, 0)
         /\ UNCHANGED graph
         /\ NoOutput
    ELSE \E end \in {Dijkstra(adjList, locationCount, locationToIndex[start])} :
         LET n == locationCount
             ub == \/ end.ub
                   \/ \E i \in 1..n : end.dist[i] # INT_MAX /\ Times5Overflows(end.dist[i])
         IN  /\ \/ /\ lastCall' = Call("optimizeDeliveryPlan", start, "", 0, "ok", -1, 0)
                   /\ dist' = end.dist
                   /\ report' = [i \in 1..n |->
                                    ReportLine(indexToLocation[i], end.dist[i])]
                \/ /\ ub
                   /\ lastCall' = Call("optimizeDeliveryPlan", start, "", 0, "aborted",
                                        -1, 0)
                   /\ dist' = <<>>
                   /\ report' = <<>>
             /\ delivered' = <<>>
             /\ shown' = <<>>
             /\ UNCHANGED graph

----
\* simulateDelivery (BFS).  The loop state is [q, visited, out].

\* lines 254-260 from entry i of the row of curr
RECURSIVE Visit(_, _, _)
Visit(row, st, i) ==
    IF i > Len(row) THEN st
    ELSE LET neighbor == row[i][1]
         IN  IF ~st.visited[neighbor + 1]
             THEN Visit(row, [st EXCEPT !.visited[neighbor + 1] = TRUE,
                                        !.q = Append(@, neighbor)], i + 1)
             ELSE Visit(row, st, i + 1)

\* BfsStep taking the newest element of the queue instead of the oldest
BfsStep_lifo(rows, names, st) ==
    LET curr == st.q[Len(st.q)]
        popped == [st EXCEPT !.q = SubSeq(@, 1, Len(@) - 1),
                             !.out = Append(@, names[curr + 1])]
    IN  Visit(rows[curr + 1], popped, 1)

\* one iteration of the while loop of lines 249-261
BfsStep(rows, names, st) ==
    LET curr == Head(st.q)
        popped == [st EXCEPT !.q = Tail(@), !.out = Append(@, names[curr + 1])]
    IN  Visit(rows[curr + 1], popped, 1)

RECURSIVE BfsLoop(_, _, _)
BfsLoop(rows, names, st) ==
    IF st.q = <<>> THEN st ELSE BfsLoop(rows, names, BfsStep(rows, names, st))

\* Bfs without visited[src] = true
Bfs_srcUnmarked(rows, names, n, src) ==
    BfsLoop(rows, names, [q |-> <<src>>,
                          visited |-> [i \in 1..n |-> FALSE],
                          out |-> <<>>])

\* lines 240-261
Bfs(rows, names, n, src) ==
    BfsLoop(rows, names, [q |-> <<src>>,
                          visited |-> [i \in 1..n |-> i = src + 1],
                          out |-> <<>>])

\* simulateDelivery looking the name up with operator[] before the check,
\* which inserts a missing name with handle 0
simulateDelivery_insert(start) ==
    IF start \notin DOMAIN locationToIndex
    THEN /\ lastCall' = Call("simulateDelivery", start, "", 0, "LocationNotFound", -1, 0)
         /\ locationToIndex' = [n \in DOMAIN locationToIndex \cup {start} |->
                                  IF n = start THEN 0 ELSE locationToIndex[n]]
         /\ UNCHANGED <<indexToLocation, adjList, locationCount>>
         /\ NoOutput
    ELSE /\ delivered' = Bfs(adjList, indexToLocation, locationCount,
                             locationToIndex[start]).out
         /\ lastCall' = Call("simulateDelivery", start, "", 0, "ok", -1, 0)
         /\ dist' = <<>>
         /\ report' = <<>>
         /\ shown' = <<>>
         /\ UNCHANGED graph

simulateDelivery(start) ==
    IF start \notin DOMAIN locationToIndex
    THEN /\ lastCall' = Call("simulateDelivery", start, "", 0, "LocationNotFound", -1, 0)
         /\ UNCHANGED graph
         /\ NoOutput
    ELSE /\ delivered' = Bfs(adjList, indexToLocation, locationCount,
                             locationToIndex[start]).out
         /\ lastCall' = Call("simulateDelivery", start, "", 0, "ok", -1, 0)
         /\ dist' = <<>>
         /\ report' = <<>>
         /\ shown' = <<>>
         /\ UNCHANGED graph

\* showLocations printing the names from the last handle to the first
showLocations_backwards ==
    /\ shown' = [i \in 1..Len(indexToLocation) |->
                    indexToLocation[Len(indexToLocation) + 1 - i]]
    /\ lastCall' = Call("showLocations", "", "", 0, "ok", -1, 0)
    /\ dist' = <<>>
    /\ report' = <<>>
    /\ delivered' = <<>>
    /\ UNCHANGED graph

showLocations ==
    /\ shown' = indexToLocation
    /\ lastCall' = Call("showLocations", "", "", 0, "ok", -1, 0)
    /\ dist' = <<>>
    /\ report' = <<>>
    /\ delivered' = <<>>
    /\ UNCHANGED graph

----
\* The menu loop of main(): one call at a time, until the process ends.

Next ==
    /\ lastCall.status # "aborted"
    /\ UNCHANGED run
    /\ \/ \E name \in Names : addLocation(name)
       \/ \E name \in Names : removeLocation(name)
       \/ \E from \in Names, to \in Names, cost \in Costs : addRoute(from, to, cost)
       \/ \E from \in Names, to \in Names : removeRoute(from, to)
       \/ showLocations
       \/ \E start \in Names : optimizeDeliveryPlan(start)
       \/ \E start \in Names : simulateDelivery(start)

Spec == Init /\ [][Next]_vars

----
\* The same program with the two query loops followed one iteration of the
\* while loop at a time.  The calls are made one at a time, so nothing else
\* happens while a loop runs.

KeepGraphAndOutput ==
    UNCHANGED <<locationToIndex, indexToLocation, adjList, locationCount,
                dist, report, delivered, shown>>

\* lines 176-193: the check, the dist vector and the first push
optimizeBegin(start) ==
    /\ run = Idle
    /\ IF start \notin DOMAIN locationToIndex
       THEN /\ lastCall' = Call("optimizeDeliveryPlan", start, "", 0,
                                 "LocationNotFound", -1, 0)
            /\ UNCHANGED run
       ELSE /\ lastCall' = Call("optimizeDeliveryPlan", start, "", 0, "running", -1, 0)
            /\ run' = [kind |-> "dijkstra", start |-> start,
                       st |-> [dist |-> [i \in 1..locationCount |->
                                            IF i = locationToIndex[start] + 1
                                            THEN 0 ELSE INT_MAX],
                               pq |-> << <<0, locationToIndex[start]>> >>,
                               ub |-> FALSE],
                       steps |-> 0,
                       scans |-> [i \in 1..locationCount |-> 0]]
    /\ UNCHANGED graph
    /\ NoOutput

\* lines 196-215: one iteration; an addition that overflows may end the
\* process instead
optimizeIterate ==
    /\ run.kind = "dijkstra"
    /\ run.st.pq # <<>>
    /\ run.steps < MaxSteps
    /\ \E next \in {DijkstraStep(adjList, run.st)} :
          LET t == TopIdx(run.st.pq)
              d == run.st.pq[t][1]
              u == run.st.pq[t][2]
          IN  \/ /\ run' = [run EXCEPT !.st = next,
                                       !.steps = @ + 1,
                                       !.scans[u + 1] =
                                           IF d > run.st.dist[u + 1] THEN @ ELSE @ + 1]
                 /\ UNCHANGED lastCall
              \/ /\ next.ub
                 /\ ~run.st.ub
                 /\ run' = Idle
                 /\ lastCall' = [lastCall EXCEPT !.status = "aborted"]
    /\ KeepGraphAndOutput

\* lines 217-226, once the queue is empty
optimizeFinish ==
    /\ run.kind = "dijkstra"
    /\ run.st.pq = <<>>
    /\ LET n == locationCount
           ub == \/ run.st.ub
                 \/ \E i \in 1..n : /\ run.st.dist[i] # INT_MAX
                                    /\ Times5Overflows(run.st.dist[i])
       IN  \/ /\ lastCall' = [lastCall EXCEPT !.status = "ok"]
              /\ dist' = run.st.dist
              /\ report' = [i \in 1..n |-> ReportLine(indexToLocation[i], run.st.dist[i])]
           \/ /\ ub
              /\ lastCall' = [lastCall EXCEPT !.status = "aborted"]
              /\ dist' = <<>>
              /\ report' = <<>>
    /\ run' = Idle
    /\ delivered' = <<>>
    /\ shown' = <<>>
    /\ UNCHANGED graph

\* lines 234-248: the check, the visited vector and the first push
simulateBegin(start) ==
    /\ run = Idle
    /\ IF start \notin DOMAIN locationToIndex
       THEN /\ lastCall' = Call("simulateDelivery", start, "", 0,
                                 "LocationNotFound", -1, 0)
            /\ UNCHANGED run
       ELSE /\ lastCall' = Call("simulateDelivery", start, "", 0, "running", -1, 0)
            /\ run' = [kind |-> "bfs", start |-> start,
                       st |-> [q |-> <<locationToIndex[start]>>,
                               visited |-> [i \in 1..locationCount |->
                                               i = locationToIndex[start] + 1],
                               out |-> <<>>],
                       steps |-> 0,
                       scans |-> [i \in 1..locationCount |-> 0]]
    /\ UNCHANGED graph
    /\ NoOutput

\* lines 249-261: one iteration
simulateIterate ==
    /\ run.kind = "bfs"
    /\ run.st.q # <<>>
    /\ run.steps < MaxSteps
    /\ run' = [run EXCEPT !.st = BfsStep(adjList, indexToLocation, @),
                          !.steps = @ + 1,
                          !.scans[Head(run.st.q) + 1] = @ + 1]
    /\ UNCHANGED lastCall
    /\ KeepGraphAndOutput

\* the queue is empty: the method returns
simulateFinish ==
    /\ run.kind = "bfs"
    /\ run.st.q = <<>>
    /\ lastCall' = [lastCall EXCEPT !.status = "ok"]
    /\ delivered' = run.st.out
    /\ run' = Idle
    /\ dist' = <<>>
    /\ report' = <<>>
    /\ shown' = <<>>
    /\ UNCHANGED graph

NextSteps ==
    /\ lastCall.status # "aborted"
    /\ \/ /\ run = Idle
          /\ UNCHANGED run
          /\ \/ \E name \in StepNames : addLocation(name)
             \/ \E name \in StepNames : removeLocation(name)
             \/ \E from \in StepNames, to \in StepNames, cost \in StepCosts :
                   addRoute(from, to, cost)
             \/ \E from \in StepNames, to \in StepNames : removeRoute(from, to)
       \/ \E start \in StepNames : optimizeBegin(start)
       \/ optimizeIterate
       \/ optimizeFinish
       \/ \E start \in StepNames : simulateBegin(start)
       \/ simulateIterate
       \/ simulateFinish

SpecSteps == Init /\ [][NextSteps]_vars

----
\* Properties of the graph store.

Handles == 0..(locationCount - 1)
Live == DOMAIN locationToIndex
Ok(op) == lastCall.op = op /\ lastCall.status = "ok"

\* C1 (bijection invariant): in every reachable state the live names are
\* exactly the names of the list, every live name's handle leads back to that
\* name in the list, no two live names share a handle, and the handles in use
\* are exactly 0..locationCount-1.
C1_Bijection ==
    /\ Live = {indexToLocation[i] : i \in 1..Len(indexToLocation)}
    /\ \A name \in Live :
          /\ locationToIndex[name] \in 0..(Len(indexToLocation) - 1)
          /\ indexToLocation[locationToIndex[name] + 1] = name
    /\ \A a \in Live, b \in Live : locationToIndex[a] = locationToIndex[b] => a = b
    /\ {locationToIndex[name] : name \in Live} = Handles

\* a removal of handle 0 that left two locations, both of which moved down
C1_Witness ==
    /\ Ok("removeLocation")
    /\ lastCall.idx = 0
    /\ locationCount = 2

\* number of entries <<target, cost>> of a row
Count(row, target, cost) ==
    Cardinality({i \in 1..Len(row) : row[i] = <<target, cost>>})

\* C2 (symmetry invariant): in every reachable state, for all handles u, v
\* and every cost c, row u holds as many entries (v, c) as row v holds
\* entries (u, c).
C2_Symmetry ==
    \A u \in 1..Len(adjList), v \in 1..Len(adjList), c \in Costs :
        Count(adjList[u], v - 1, c) = Count(adjList[v], u - 1, c)

\* a removal of handle 0 that left routes between the shifted locations
C2_Witness ==
    /\ Ok("removeLocation")
    /\ lastCall.idx = 0
    /\ lastCall.erased > 0
    /\ \E u \in 1..Len(adjList) : \E i \in 1..Len(adjList[u]) : adjList[u][i][1] # u - 1

\* the handle an entry of the new graph had before handle k was removed
Unshift(h, k) == IF h >= k THEN h + 1 ELSE h

\* C3 (removal compaction): a successful removeLocation of handle k among n
\* locations leaves n-1 locations; every other location keeps its handle if
\* it was below k and gets its handle minus 1 if it was above k; and every
\* remaining row is its old row without the entries that targeted k (the
\* other entries in order, their targets renumbered the same way).
C3_RemovalCompaction ==
    [][(lastCall'.op = "removeLocation" /\ lastCall'.status = "ok") =>
        LET k == locationToIndex[lastCall'.from]
        IN  /\ locationCount' = locationCount - 1
            /\ DOMAIN locationToIndex' = Live \ {lastCall'.from}
            /\ \A name \in Live \ {lastCall'.from} :
                  locationToIndex'[name] =
                      IF locationToIndex[name] > k THEN locationToIndex[name] - 1
                      ELSE locationToIndex[name]
            /\ \A name \in Live \ {lastCall'.from} :
                  LET old == adjList[locationToIndex[name] + 1]
                      new == adjList'[locationToIndex'[name] + 1]
                  IN  [i \in 1..Len(new) |-> <<Unshift(new[i][1], k), new[i][2]>>]
                          = SelectSeq(old, LAMBDA e : e[1] # k)
    ]_vars

\* the middle one of three locations was removed and took routes with it,
\* while a route between the two others survived
C3_Witness ==
    /\ Ok("removeLocation")
    /\ lastCall.idx = 1
    /\ locationCount = 2
    /\ lastCall.erased > 0
    /\ adjList[1] # <<>>

\* C4 (error atomicity): a call reports DuplicateLocation exactly when it is
\* an addLocation of a live name, and LocationNotFound exactly when it is one
\* of the other calls with a name that is not live (for addRoute and
\* removeRoute: at least one of the two); a call that reports an error
\* leaves the name list, the map, every adjacency list and the count as they
\* were.
C4_ErrorAtomicity ==
    [][/\ (lastCall'.status = "DuplicateLocation") <=>
              (lastCall'.op = "addLocation" /\ lastCall'.from \in Live)
       /\ (lastCall'.status = "LocationNotFound") <=>
              \/ /\ lastCall'.op \in {"removeLocation", "optimizeDeliveryPlan",
                                      "simulateDelivery"}
                 /\ lastCall'.from \notin Live
              \/ /\ lastCall'.op \in {"addRoute", "removeRoute"}
                 /\ (lastCall'.from \notin Live \/ lastCall'.to \notin Live)
       /\ (lastCall'.status \in {"DuplicateLocation", "LocationNotFound"}) =>
              UNCHANGED graph
    ]_vars

\* an addRoute failed with exactly one endpoint live, in a graph with routes
C4_Witness ==
    /\ lastCall.op = "addRoute"
    /\ lastCall.status = "LocationNotFound"
    /\ (lastCall.from \in Live) # (lastCall.to \in Live)
    /\ SumLen(adjList, 1) > 0

----
\* Properties of the two queries, against references that do not share the
\* program's loops.

Row(h) == adjList[h + 1]
Targets(h) == {Row(h)[i][1] : i \in 1..Len(Row(h))}

\* the handles connected to the handles of S by routes
RECURSIVE Closure(_)
Closure(S) ==
    LET T == S \cup UNION {Targets(u) : u \in S}
    IN  IF T = S THEN S ELSE Closure(T)

Component(src) == Closure({src})

\* Path costs as mathematical integers: a number from 0 to INT_MAX, TooBig
\* for a sum above INT_MAX, NoPath where there is no path (two markers that
\* are not costs of paths).
TooBig == INT_MIN
NoPath == INT_MIN + 1
Plus(a, c) ==
    IF a = NoPath THEN NoPath
    ELSE IF a = TooBig \/ c > INT_MAX - a THEN TooBig
    ELSE a + c
Cheaper(a, b) ==
    /\ a # NoPath
    /\ \/ b = NoPath
       \/ a # TooBig /\ (b = TooBig \/ a < b)
\* the cheapest of the costs of S, or b
RECURSIVE Cheapest(_, _)
Cheapest(S, b) ==
    IF S = {} THEN b
    ELSE LET a == CHOOSE x \in S : TRUE
         IN  Cheapest(S \ {a}, IF Cheaper(a, b) THEN a ELSE b)
\* Bellman-Ford: cheapest cost of a path of at most k routes from src
RECURSIVE MinCost(_, _)
MinCost(src, k) ==
    IF k = 0 THEN [h \in Handles |-> IF h = src THEN 0 ELSE NoPath]
    ELSE LET prev == MinCost(src, k - 1)
         IN  [h \in Handles |->
                 Cheapest({Plus(prev[u], Row(u)[i][2]) :
                              <<u, i>> \in {<<u, i>> \in Handles \X (1..(2 * MaxRoutes + 2)) :
                                               i <= Len(Row(u)) /\ Row(u)[i][1] = h}},
                          prev[h])]

\* C5 (Dijkstra correctness): when optimizeDeliveryPlan(source) finishes on
\* a graph whose costs are all non-negative, the distance recorded for each
\* location is the minimum total cost over all paths from the source (0 for
\* the source), and the "infinite" value where there is no path.
C5_DijkstraCorrect ==
    Ok("optimizeDeliveryPlan") =>
        LET src == locationToIndex[lastCall.from]
            min == MinCost(src, locationCount)
        IN  \A h \in Handles :
                IF min[h] = NoPath THEN dist[h + 1] = INT_MAX
                ELSE dist[h + 1] = min[h]

\* C6 (unreachable reporting): optimizeDeliveryPlan(source) reports a
\* location as unreachable if and only if no path of routes connects it to
\* the source.
C6_UnreachableReporting ==
    Ok("optimizeDeliveryPlan") =>
        \A h \in Handles :
            report[h + 1].unreachable <=> h \notin Component(locationToIndex[lastCall.from])

\* C7 (BFS completeness): the names simulateDelivery(source) prints are the
\* locations of the connected component of the source, each exactly once,
\* and no other.
C7_BfsCompleteness ==
    Ok("simulateDelivery") =>
        /\ \A i \in 1..Len(delivered), j \in 1..Len(delivered) :
              delivered[i] = delivered[j] => i = j
        /\ {delivered[i] : i \in 1..Len(delivered)} =
              {indexToLocation[h + 1] : h \in Component(locationToIndex[lastCall.from])}

\* a component of two locations with a self-loop or a duplicate route, and a
\* third location outside it
C7_Witness ==
    /\ Ok("simulateDelivery")
    /\ Len(delivered) = 2
    /\ locationCount = 3
    /\ \E h \in Handles : \E i \in 1..Len(Row(h)), j \in 1..Len(Row(h)) :
          i # j /\ Row(h)[i][1] = Row(h)[j][1]

\* position of the first entry of row h that targets t
FirstAt(h, t) ==
    CHOOSE i \in 1..Len(Row(h)) :
        Row(h)[i][1] = t /\ \A j \in 1..(i - 1) : Row(h)[j][1] # t

\* the printed names as handles
Out == [p \in 1..Len(delivered) |-> locationToIndex[delivered[p]]]

\* position in the output of the location that discovered the one at p:
\* the earliest printed location that has a route to it
Discoverer(p) ==
    CHOOSE q \in 1..(p - 1) :
        /\ Out[p] \in Targets(Out[q])
        /\ \A r \in 1..(q - 1) : Out[p] \notin Targets(Out[r])

C8_DiscoveryOrder ==
    Ok("simulateDelivery") =>
        /\ Len(delivered) >= 1
        /\ delivered[1] = lastCall.from
        /\ \A p \in 2..Len(delivered) : \E q \in 1..(p - 1) : Out[p] \in Targets(Out[q])
        /\ \A p \in 2..Len(delivered), r \in 2..Len(delivered) :
              p < r =>
                 \/ Discoverer(p) < Discoverer(r)
                 \/ /\ Discoverer(p) = Discoverer(r)
                    /\ FirstAt(Out[Discoverer(p)], Out[p]) < FirstAt(Out[Discoverer(p)], Out[r])

C8_CallOrder ==
    /\ (lastCall'.op = "addRoute" /\ lastCall'.status = "ok") =>
           \A h \in Handles :
               /\ Len(adjList'[h + 1]) >= Len(Row(h))
               /\ SubSeq(adjList'[h + 1], 1, Len(Row(h))) = Row(h)
    /\ (lastCall'.op = "removeRoute" /\ lastCall'.status = "ok") =>
           LET u == locationToIndex[lastCall'.from]
               v == locationToIndex[lastCall'.to]
           IN  \A h \in Handles :
                   adjList'[h + 1] =
                       SelectSeq(Row(h), LAMBDA e : ~(\/ h = u /\ e[1] = v
                                                      \/ h = v /\ e[1] = u))

\* C8 (BFS visitation order): simulateDelivery(source) prints the source
\* first and then every other location after the one that discovered it:
\* locations discovered by an earlier printed location come first, and those
\* discovered by the same location come in the order of their first entries
\* in its adjacency list; addRoute only appends to adjacency lists and
\* removeRoute keeps the order of the entries it leaves, so the list order
\* is the order of the addRoute calls that made the surviving entries.
C8_BfsOrder == []C8_DiscoveryOrder /\ [][C8_CallOrder]_vars

\* the source discovered two locations, in the order of its list and against
\* the order of their handles
C8_Witness ==
    /\ Ok("simulateDelivery")
    /\ Len(delivered) = 3
    /\ Discoverer(2) = 1
    /\ Discoverer(3) = 1
    /\ Out[2] > Out[3]

\* C9 (duplicate route multiplicity): every successful addRoute on two
\* distinct locations appends one entry to each endpoint's list and leaves
\* every earlier entry in place (no dedup); a successful removeRoute leaves
\* no entry between the two locations in either list, however many there
\* were.
C9_DuplicateRoutes ==
    [][/\ (lastCall'.op = "addRoute" /\ lastCall'.status = "ok"
              /\ lastCall'.from # lastCall'.to) =>
              LET u == locationToIndex[lastCall'.from]
                  v == locationToIndex[lastCall'.to]
              IN  /\ adjList'[u + 1] = Append(Row(u), <<v, lastCall'.cost>>)
                  /\ adjList'[v + 1] = Append(Row(v), <<u, lastCall'.cost>>)
                  /\ \A h \in Handles \ {u, v} : adjList'[h + 1] = Row(h)
       /\ (lastCall'.op = "removeRoute" /\ lastCall'.status = "ok") =>
              LET u == locationToIndex[lastCall'.from]
                  v == locationToIndex[lastCall'.to]
              IN  /\ \A i \in 1..Len(adjList'[u + 1]) : adjList'[u + 1][i][1] # v
                  /\ \A i \in 1..Len(adjList'[v + 1]) : adjList'[v + 1][i][1] # u
    ]_vars

\* one removeRoute erased two routes between two distinct locations
C9_Witness ==
    /\ Ok("removeRoute")
    /\ lastCall.from # lastCall.to
    /\ lastCall.erased = 4

\* C10 (idempotent removeRoute): removeRoute on two live locations reports
\* success whether or not a route exists between them, and a removeRoute that
\* repeats the successful removeRoute just before it leaves the graph as the
\* first one left it.
C10_IdempotentRemoveRoute ==
    [][(/\ lastCall'.op = "removeRoute"
        /\ lastCall'.from \in Live
        /\ lastCall'.to \in Live) =>
           /\ lastCall'.status = "ok"
           /\ lastCall'.again => UNCHANGED graph
    ]_vars

\* the second of two equal removeRoute calls in a row, in a graph that still
\* has routes
C10_Witness ==
    /\ Ok("removeRoute")
    /\ lastCall.again
    /\ SumLen(adjList, 1) > 0

----
\* Further properties of the graph store.

SelfRouteAdded ==
    /\ lastCall'.op = "addRoute"
    /\ lastCall'.status = "ok"
    /\ lastCall'.from = lastCall'.to

\* C11 as claimed (self-route): addRoute(a, a, cost) on a live location a is
\* accepted and adds one entry (handle(a), cost) to a's adjacency list,
\* changing no other list.
C11_SelfRouteOneEntry ==
    [][/\ (lastCall'.op = "addRoute" /\ lastCall'.from = lastCall'.to
              /\ lastCall'.from \in Live) => lastCall'.status = "ok"
       /\ SelfRouteAdded =>
              LET a == locationToIndex[lastCall'.from]
              IN  /\ adjList'[a + 1] = Append(Row(a), <<a, lastCall'.cost>>)
                  /\ \A h \in Handles \ {a} : adjList'[h + 1] = Row(h)
    ]_vars

\* C11 (self-route), amended: addRoute(a, a, cost) on a live location a is
\* accepted and appends two entries (handle(a), cost) to a's adjacency list,
\* one per push_back, changing no other list.
C11_SelfRouteTwoEntries ==
    [][/\ (lastCall'.op = "addRoute" /\ lastCall'.from = lastCall'.to
              /\ lastCall'.from \in Live) => lastCall'.status = "ok"
       /\ SelfRouteAdded =>
              LET a == locationToIndex[lastCall'.from]
              IN  /\ adjList'[a + 1] =
                         Row(a) \o << <<a, lastCall'.cost>>, <<a, lastCall'.cost>> >>
                  /\ \A h \in Handles \ {a} : adjList'[h + 1] = Row(h)
    ]_vars

\* a self-route was added next to a route of another location
C11_Witness ==
    /\ Ok("addRoute")
    /\ lastCall.from = lastCall.to
    /\ \E h \in Handles \ {locationToIndex[lastCall.from]} : Row(h) # <<>>

\* C14 (queries are read-only): optimizeDeliveryPlan, simulateDelivery and
\* showLocations, whether they succeed or report LocationNotFound, leave the
\* name list, the map, every adjacency list and the count unchanged.
C14_QueriesReadOnly ==
    [][lastCall'.op \in {"optimizeDeliveryPlan", "simulateDelivery", "showLocations"}
          => UNCHANGED graph]_vars

\* a traversal that went through three locations and their routes
C14_Witness ==
    /\ Ok("simulateDelivery")
    /\ Len(delivered) = 3
    /\ SumLen(adjList, 1) > 2

\* the list of names changes only by an append or by the loss of one name
C15_ListSteps ==
    /\ (lastCall'.op = "addLocation" /\ lastCall'.status = "ok") =>
           indexToLocation' = Append(indexToLocation, lastCall'.from)
    /\ (lastCall'.op = "removeLocation" /\ lastCall'.status = "ok") =>
           indexToLocation' = SelectSeq(indexToLocation, LAMBDA n : n # lastCall'.from)
    /\ ~(lastCall'.op \in {"addLocation", "removeLocation"} /\ lastCall'.status = "ok") =>
           indexToLocation' = indexToLocation

C15_Listing ==
    Ok("showLocations") =>
        /\ Len(shown) = Cardinality(Live)
        /\ {shown[i] : i \in 1..Len(shown)} = Live
        /\ \A i \in 1..Len(shown) : locationToIndex[shown[i]] = i - 1

\* C15 (listing order): showLocations prints exactly the live names, each
\* once, in handle order; a successful addLocation puts the new name last, a
\* successful removeLocation takes one name out without reordering the
\* others and no other call touches the list, so handle order is the order
\* of the addLocation calls that made the live locations (a re-added name
\* is last at that time).
C15_ListingOrder == []C15_Listing /\ [][C15_ListSteps]_vars

\* three names listed against their alphabetical order
C15_Witness ==
    /\ Ok("showLocations")
    /\ shown = <<"C", "B", "A">>

\* C16 (handle stability outside removal): a successful addLocation gives
\* the new name the handle equal to the count before the call, with an empty
\* adjacency list, and increments the count; addLocation, addRoute and
\* removeRoute leave the handle of every live location as it was, and
\* addLocation leaves every existing adjacency list as it was.
C16_HandleStability ==
    [][/\ (lastCall'.op = "addLocation" /\ lastCall'.status = "ok") =>
              /\ locationToIndex'[lastCall'.from] = locationCount
              /\ adjList'[locationCount + 1] = <<>>
              /\ locationCount' = locationCount + 1
              /\ \A h \in Handles : adjList'[h + 1] = Row(h)
       /\ lastCall'.op \in {"addLocation", "addRoute", "removeRoute"} =>
              \A name \in Live :
                  /\ name \in DOMAIN locationToIndex'
                  /\ locationToIndex'[name] = locationToIndex[name]
    ]_vars

\* a third location was added to a graph that has routes
C16_Witness ==
    /\ Ok("addLocation")
    /\ locationCount = 3
    /\ locationToIndex[lastCall.from] = 2
    /\ SumLen(adjList, 1) > 0

\* the adjacency list of a live name with names in place of handles
NameRow(rows, names, index, name) ==
    LET row == rows[index[name] + 1]
    IN  [i \in 1..Len(row) |-> <<names[row[i][1] + 1], row[i][2]>>]
Before(name) == NameRow(adjList, indexToLocation, locationToIndex, name)
After(name) == NameRow(adjList', indexToLocation', locationToIndex', name)
Succeeds(op) == lastCall'.op = op /\ lastCall'.status = "ok"
\* after the step every live name has a row and every entry names a location
NamedAfter ==
    /\ Len(adjList') = Len(indexToLocation')
    /\ \A name \in DOMAIN locationToIndex' :
          locationToIndex'[name] \in 0..(Len(adjList') - 1)
    /\ \A r \in 1..Len(adjList') : \A i \in 1..Len(adjList'[r]) :
          adjList'[r][i][1] \in 0..(Len(indexToLocation') - 1)

\* C17 (name-level refinement): read by names, every call acts on the
\* lists of (neighbour name, cost) entries as on a multigraph keyed by names:
\* a successful removeLocation(x) leaves the list of every other live
\* location as it was but for the entries naming x (costs, multiplicity and
\* order of the others kept), addRoute appends its entries to the lists of
\* its two names, removeRoute drops from each of its two names' lists the
\* entries naming the other, addLocation adds an empty list, and every
\* other step leaves every list as it was.
C17_NameRefinement ==
    [][/\ NamedAfter
       /\ Succeeds("removeLocation") =>
              /\ DOMAIN locationToIndex' = Live \ {lastCall'.from}
              /\ \A a \in Live \ {lastCall'.from} :
                    After(a) = SelectSeq(Before(a), LAMBDA e : e[1] # lastCall'.from)
       /\ Succeeds("addLocation") =>
              /\ DOMAIN locationToIndex' = Live \cup {lastCall'.from}
              /\ After(lastCall'.from) = <<>>
              /\ \A a \in Live : After(a) = Before(a)
       /\ Succeeds("addRoute") =>
              /\ DOMAIN locationToIndex' = Live
              /\ \A a \in Live :
                    After(a) = Before(a)
                       \o (IF a = lastCall'.from
                           THEN << <<lastCall'.to, lastCall'.cost>> >> ELSE <<>>)
                       \o (IF a = lastCall'.to
                           THEN << <<lastCall'.from, lastCall'.cost>> >> ELSE <<>>)
       /\ Succeeds("removeRoute") =>
              /\ DOMAIN locationToIndex' = Live
              /\ \A a \in Live :
                    After(a) = SelectSeq(Before(a),
                                   LAMBDA e : ~(\/ a = lastCall'.from /\ e[1] = lastCall'.to
                                                \/ a = lastCall'.to /\ e[1] = lastCall'.from))
       /\ ~(\E op \in {"removeLocation", "addLocation", "addRoute", "removeRoute"} :
                Succeeds(op)) =>
              /\ DOMAIN locationToIndex' = Live
              /\ \A a \in Live : After(a) = Before(a)
    ]_vars

\* the first of three locations was removed with a route of its own, and a
\* route between the two others, whose handles both moved, is still there
C17_Witness ==
    /\ Ok("removeLocation")
    /\ lastCall.idx = 0
    /\ locationCount = 2
    /\ lastCall.erased = 2
    /\ \E i \in 1..Len(Row(0)) : Row(0)[i][1] = 1

\* C18 (no dangling handles): in every reachable state the name list, the
\* list of adjacency rows and the map have exactly locationCount elements
\* and every neighbour handle of every adjacency entry is in
\* 0..locationCount-1, so the vectors of size locationCount that the two
\* queries index by handle are never indexed out of range.
C18_NoDanglingHandles ==
    /\ Len(indexToLocation) = locationCount
    /\ Len(adjList) = locationCount
    /\ Cardinality(DOMAIN locationToIndex) = locationCount
    /\ \A r \in 1..Len(adjList) : \A i \in 1..Len(adjList[r]) :
          adjList[r][i][1] \in Handles
    /\ \A name \in Live : locationToIndex[name] \in Handles

\* the middle one of three locations was removed and a remaining entry
\* targets the location that moved into the last handle
C18_Witness ==
    /\ Ok("removeLocation")
    /\ lastCall.idx = 1
    /\ locationCount = 2
    /\ \E i \in 1..Len(Row(0)) : Row(0)[i][1] = locationCount - 1

----
\* Properties of the query loops, followed iteration by iteration (SpecSteps).

\* C12 (termination): while a query runs, the number of iterations of its
\* loop stays within the size of the graph, whatever integer costs the routes
\* carry: the shortest-path loop pops at most the first entry and one entry
\* per adjacency entry, the traversal loop pops at most one handle per
\* location.
C12_BoundedBySize ==
    /\ run.kind = "dijkstra" => run.steps <= 1 + SumLen(adjList, 1)
    /\ run.kind = "bfs" => run.steps <= locationCount

\* C13 (derived cost): when optimizeDeliveryPlan finishes, every location it
\* reports as reachable carries a cost equal to five times its distance, the
\* product being taken in the integers.
C13_DerivedCost ==
    (Ok("optimizeDeliveryPlan") /\ run = Idle) =>
        \A i \in 1..Len(report) :
            ~report[i].unreachable =>
                /\ ~Times5Overflows(report[i].eta)
                /\ report[i].cost = 5 * report[i].eta

NonNegative ==
    \A r \in 1..Len(adjList) : \A i \in 1..Len(adjList[r]) : adjList[r][i][2] >= 0

C19_Scans ==
    (run.kind = "dijkstra" /\ NonNegative) =>
        \A h \in 1..Len(run.scans) : run.scans[h] <= 1

C19_Iteration ==
    (/\ run.kind = "dijkstra"
     /\ NonNegative
     /\ run'.kind = "dijkstra"
     /\ run'.steps = run.steps + 1) =>
        LET t == TopIdx(run.st.pq)
            d == run.st.pq[t][1]
            u == run.st.pq[t][2]
        IN  /\ d > run.st.dist[u + 1] =>
                  /\ run'.st.dist = run.st.dist
                  /\ run'.st.pq = EraseAt(run.st.pq, t - 1)
                  /\ run'.scans = run.scans
            /\ d <= run.st.dist[u + 1] =>
                  /\ run'.scans[u + 1] = run.scans[u + 1] + 1
                  /\ run.st.dist[u + 1] =
                         MinCost(locationToIndex[run.start], locationCount)[u]
            /\ \A h \in 1..Len(run.scans) :
                  run.scans[h] >= 1 => run'.st.dist[h] = run.st.dist[h]

\* C19 (lazy deletion): during optimizeDeliveryPlan on a graph with
\* non-negative costs, an entry popped with a distance greater than the
\* current distance of its location changes no distance and pushes nothing;
\* any other popped entry scans the adjacency list of a location whose
\* distance is already the cheapest cost of a path from the source; no
\* adjacency list is scanned twice in one query, and the distance of a
\* location whose list was scanned never changes afterwards.
C19_LazyDeletion == []C19_Scans /\ [][C19_Iteration]_vars

====
